---- MODULE Spec2Model ----
(***************************************************************************)
(* Model of the submission engine of the gradio JavaScript client:         *)
(* submit() (src/unnamed/part_003, the Client-bound revision of            *)
(* client/js/src/utils/submit.ts) together with the session state of       *)
(* Client (src/client/js/src/client.ts).                                   *)
(*                                                                         *)
(* Every handler of the code is one action: JavaScript runs a handler to   *)
(* completion, so the actions are the points where the event loop picks    *)
(* up an I/O completion (a promise settling, a frame, a socket event) or   *)
(* where the caller calls cancel().                                        *)
(***************************************************************************)
EXTENDS Integers, Sequences, FiniteSets, TLC

(* ---------------------------------------------------------------------- *)
(* Bounds                                                                  *)
(* ---------------------------------------------------------------------- *)
NumSubs == 2        \* submissions made through the one client
MaxFrames == 3      \* frames the server sends in one run, all transports
MaxCancels == 2     \* cancel() calls in one run of Spec
MaxMuxCancels == 1  \* cancel() calls in one run of MuxSpec
NumListeners == 2   \* distinct listener functions the caller holds
MaxRegistrations == 2  \* listeners registered at once on one handle
MaxHandleCalls == 3    \* on / off / destroy calls in one run of HandleSpec
MaxHandleFrames == 1   \* frames the server sends in one run of HandleSpec
MaxSharedFrames == 2   \* frames the server sends in one run of SharedSpec
MaxSharedCalls == 1    \* on calls in one run of SharedSpec

Subs == 1..NumSubs

(* ---------------------------------------------------------------------- *)
(* Configuration consumed by submit                                        *)
(* ---------------------------------------------------------------------- *)

\* config.protocol; "other" stands for any tag none of the branches tests.
Protocols == {"ws", "sse", "sse_v1", "sse_v2", "sse_v2.1", "sse_v3", "other"}

MuxProtocols == {"sse_v1", "sse_v2", "sse_v2.1", "sse_v3"}

DiffProtocols == {"sse_v2", "sse_v2.1", "sse_v3"}

\* fn_index values of the two endpoints of the modelled app: the
\* dependency of endpoint 0 skips the queue, that of endpoint 1 does not.
FnIndexes == {0, 1}

skip_queue(f) == f = 0

(* ---------------------------------------------------------------------- *)
(* Server frames and the message interpreter                               *)
(* ---------------------------------------------------------------------- *)

\* Wire frames are named by their msg; suffixes tell apart the shapes of
\* process_generating and process_completed:
\*   process_completed        success, output carries data
\*   process_completed_fail   success = false, output has no error field
\*   process_completed_error  output has an error field
\*   process_generating       success, output carries data
\*   process_generating_fail  success = false
\*   malformed                a frame the interpreter throws on
\* The frames the server is taken to send on each transport: one frame per
\* distinct path through that transport's handler.
WsMsgs == {"send_hash", "send_data", "estimation", "process_completed_error",
           "log", "process_generating", "process_completed",
           "process_completed_fail"}

SseMsgs == {"send_data", "estimation", "process_completed_error", "log",
            "process_generating", "process_completed",
            "process_completed_fail"}

MuxMsgs == {"estimation", "process_completed_error", "unexpected_error",
            "log", "process_generating", "process_completed",
            "process_completed_fail", "malformed"}

\* Whether the frame's msg field is the string process_completed.
IsProcessCompleted(msg) ==
    msg \in {"process_completed", "process_completed_fail",
             "process_completed_error"}

\* interpret(frame, previousStage): the classification of one frame.
\* stage "none" = the result carries no status; data = the result carries a
\* truthy data field (for a log frame the frame itself, whose .data is
\* undefined).
\* type "throw" = interpreting the frame raises an exception (a frame whose
\* shape the interpreter does not expect).
NoStatus == "none"

HandleMessage(msg, last) ==
    CASE msg = "malformed" ->
           [type |-> "throw", stage |-> NoStatus, data |-> FALSE]
      [] msg = "send_data" ->
           [type |-> "data", stage |-> NoStatus, data |-> FALSE]
      [] msg = "send_hash" ->
           [type |-> "hash", stage |-> NoStatus, data |-> FALSE]
      [] msg = "queue_full" ->
           [type |-> "update", stage |-> "error", data |-> FALSE]
      [] msg = "heartbeat" ->
           [type |-> "heartbeat", stage |-> NoStatus, data |-> FALSE]
      [] msg = "unexpected_error" ->
           [type |-> "unexpected_error", stage |-> "error", data |-> FALSE]
      [] msg = "estimation" ->
           [type |-> "update",
            stage |-> IF last = NoStatus THEN "pending" ELSE last,
            data |-> FALSE]
      [] msg = "process_starts" ->
           [type |-> "update", stage |-> "pending", data |-> FALSE]
      [] msg = "log" ->
           [type |-> "log", stage |-> NoStatus, data |-> TRUE]
      [] msg = "process_generating" ->
           [type |-> "generating", stage |-> "generating", data |-> TRUE]
      [] msg = "process_generating_fail" ->
           [type |-> "generating", stage |-> "error", data |-> FALSE]
      [] msg = "process_completed_error" ->
           [type |-> "update", stage |-> "error", data |-> FALSE]
      [] msg = "process_completed" ->
           [type |-> "complete", stage |-> "complete", data |-> TRUE]
      [] msg = "process_completed_fail" ->
           [type |-> "complete", stage |-> "error", data |-> FALSE]
      [] OTHER ->
           [type |-> "none", stage |-> "error", data |-> FALSE]

\* let last_status = {} in submit: a fresh map that submit never writes, so
\* last_status[fn_index] reads undefined at every call of the interpreter.
last_status(f) == NoStatus

\* Client.session_hash is Math.random().toString(36).substring(2), drawn
\* once when the Client is constructed: two of the values it can take.
SessionHashes == {"hash_a", "hash_b"}

\* A message a submission sends that has a session_hash field: the POST to
\* /run ("run") and to /queue/join ("join"), the GET of the dedicated
\* stream ("join_get"), the replies on the socket ("ws_hash", "ws_data"),
\* the POST to /queue/data ("queue_data"), the GET of the multiplex stream
\* ("stream") and the POST to /reset of a ws submission ("reset").
Request(to, hash) == [to |-> to, session_hash |-> hash]

send(log, to, hash) == Append(log, Request(to, hash))

(* ---------------------------------------------------------------------- *)
(* Events                                                                  *)
(* ---------------------------------------------------------------------- *)

\* One emitted event.  stage is "undefined" where the code spreads a
\* missing status; queue is "na" for data and log events.  by names the
\* fire_event call site and fr the number of the frame being handled (0
\* when the event is not caused by a frame); both are bookkeeping.
Ev(type, stage, queue, by, fr) ==
    [type |-> type, stage |-> stage, queue |-> queue, by |-> by, fr |-> fr]

StatusEv(stage, queue, by, fr) == Ev("status", stage, queue, by, fr)

DataEv(by, fr) == Ev("data", "na", "na", by, fr)

LogEv(fr) == Ev("log", "na", "na", "log", fr)

\* The `broken` field of a fired status: the one call site that passes
\* broken: true is websocket.onclose; at every other call site of submit the
\* field is absent.
Broken(ev) == ev.type = "status" /\ ev.by = "broken"

\* fire_event appends to the record of what the listeners were handed.
fire_event(log, ev) == Append(log, ev)

\* stage: status?.stage! of the frame being handled.
StageOf(m) == IF m.stage = NoStatus THEN "undefined" ELSE m.stage

(* ---------------------------------------------------------------------- *)
(* Listeners                                                               *)
(* ---------------------------------------------------------------------- *)

\* The event types a listener can be registered for.
EventTypes == {"data", "status", "log"}

\* Listener functions, told apart by identity.
Listeners == 1..NumListeners

\* listener_map = {}: a type without a key reads as [] everywhere
\* (listener_map[type] || []), so the model keeps the empty sequence.
NoListeners == [t \in EventTypes |-> << >>]

\* on: listeners.push(listener)
on(listeners, l) == Append(listeners, l)

\* off: listeners.filter((l) => l !== listener)
off(listeners, l) == SelectSeq(listeners, LAMBDA x : x # l)

\* listener_map[event_type].forEach((fn) => off(event_type, fn)): forEach
\* walks the array it was called on while every off replaces
\* listener_map[event_type] by a filtered copy.
RECURSIVE OffEach(_, _)
OffEach(fns, current) ==
    IF fns = << >> THEN current
    ELSE OffEach(Tail(fns), off(current, Head(fns)))

\* destroy with the cast of its loop taken for a test: only the listeners
\* of data and status are removed.
destroyDataAndStatus(lm) ==
    [t \in EventTypes |->
        IF t \in {"data", "status"} THEN OffEach(lm[t], lm[t]) ELSE lm[t]]

\* destroy: for (const event_type in listener_map) ...
destroy(lm) == [t \in EventTypes |-> OffEach(lm[t], lm[t])]

\* Bookkeeping entries of the invocation record: the start of a dispatch
\* with the listeners fire_event found, one listener call, and an on() call
\* made by a listener while it runs.
Fired(i, fns) == [op |-> "fire", l |-> 0, ev |-> i, fns |-> fns]

Called(i, l) == [op |-> "call", l |-> l, ev |-> i, fns |-> << >>]

Added(i, l) == [op |-> "on", l |-> l, ev |-> i, fns |-> << >>]

\* l(event): the listener is called.  A listener the caller wrote to
\* register another one (adds[l], 0 for none) calls on(event.type, adds[l])
\* the first time it runs.  d holds the listener map, what the listeners
\* still register, and the invocation record.
Invoke(d, type, l, i) ==
    LET d1 == [d EXCEPT !.acc = Append(@, Called(i, l))] IN
    IF d.adds[l] = 0 THEN d1
    ELSE [d1 EXCEPT !.lm[type] = on(@, d.adds[l]),
                    !.adds[l] = 0,
                    !.acc = Append(@, Added(i, d.adds[l]))]

\* The loop over the listeners with its bound read again at every step, as
\* a for loop over listeners.length would do.
RECURSIVE ForEachLive(_, _, _, _, _)
ForEachLive(d, type, i, k, n) ==
    IF k > Len(d.lm[type]) THEN d
    ELSE ForEachLive(Invoke(d, type, d.lm[type][k], i), type, i, k + 1, n)

\* listeners.forEach((l) => l(event)): forEach fixes the number n of
\* elements it visits before the first call and reads element k when it
\* gets there; on pushes onto the same array.
RECURSIVE ForEach(_, _, _, _, _)
ForEach(d, type, i, k, n) ==
    IF k > n THEN d
    ELSE ForEach(Invoke(d, type, d.lm[type][k], i), type, i, k + 1, n)

\* fire_event for the events numbered i and up of evs, in turn.
RECURSIVE Notify(_, _, _)
Notify(d, evs, i) ==
    IF i > Len(evs) THEN d
    ELSE LET fns == d.lm[evs[i].type]
             d1 == [d EXCEPT !.acc = Append(@, Fired(i, fns))]
         IN  Notify(ForEach(d1, evs[i].type, i, 1, Len(fns)), evs, i + 1)

(* ---------------------------------------------------------------------- *)
(* State                                                                   *)
(* ---------------------------------------------------------------------- *)
VARIABLES
    protocol,                 \* config.protocol ?? "ws" of the session
    pc,                       \* per submission: where its promise chain is
    fn_index,                 \* per submission: resolved fn_index
    complete,                 \* per submission: false, or the stashed stage
    events,                   \* per submission: events handed to fire_event
    event_id,                 \* per submission: 0 (null) or the bound id
    websocket,                \* per submission: the WebSocket's readyState
    close_on_open,            \* per submission: cancel's "open" listener set
    event_source,             \* per submission: submit's local event_source
    posts,                    \* per submission: /queue/data POSTs in flight
    cancels,                  \* cancel() calls made so far
    cancel_outcomes,          \* per submission: how each cancel() promise settled
    client_session_hash,      \* Client.session_hash
    heartbeat_url,            \* the hash in the heartbeat URL init() connected to
    session_hash,             \* per submission: submit's const session_hash
    requests,                 \* per submission: what it sent with a session_hash
    resets,                   \* per submission: bodies POSTed to /reset
    event_callbacks,          \* session: ids with a registered callback
    unclosed_events,          \* session: Set of event ids
    pending_stream_messages,  \* session: id -> frames buffered for it
    pending_diff_streams,     \* session: ids with a folded snapshot
    stream,                   \* session: the multiplex EventSource is open
    event_streams,            \* session: multiplex EventSources now open
    listener_map,             \* per submission: event type -> listeners
    invoked,                  \* per submission: listener invocations made
    registers,                \* per submission: listener -> the listener it
                              \*   registers when first called, 0 for none
    last_call,                \* the latest on / off / destroy call
    nframes,                  \* frames sent by the server so far
    arrived,                  \* per id: frames the multiplex stream delivered,
                              \*   early = before the reply to the join POST
    processed                 \* per submission: calls of its frame handler

vars == <<client_session_hash, heartbeat_url, session_hash, requests,
          protocol, pc, fn_index, complete, events, event_id, websocket,
          close_on_open, event_source, posts, cancels, cancel_outcomes, resets,
          event_callbacks, unclosed_events, pending_stream_messages,
          pending_diff_streams, stream, event_streams, listener_map,
          invoked, registers, last_call, nframes, arrived, processed>>

subVars == <<session_hash, requests, pc, fn_index, complete, events, event_id, websocket,
             close_on_open, event_source, posts, cancels, cancel_outcomes, resets>>

clientVars == <<client_session_hash, heartbeat_url>>

muxVars == <<event_callbacks, unclosed_events, pending_stream_messages,
             pending_diff_streams, stream, event_streams>>

\* submit's `complete` is false until a status object is stored in it; the
\* model keeps the stored status's stage.
NotComplete == "false"

IsComplete(c) == c # NotComplete

\* Bookkeeping: no on / off / destroy call has been made yet.
NoCall ==
    [op |-> "none", s |-> 0, type |-> "none", l |-> 0,
     before |-> NoListeners, invoked |-> 0, events |-> 0, k |-> 0]

Init ==
    /\ protocol \in Protocols
    /\ client_session_hash \in SessionHashes
    /\ heartbeat_url = client_session_hash
    /\ session_hash = [s \in Subs |-> "unset"]
    /\ requests = [s \in Subs |-> << >>]
    /\ pc = [s \in Subs |-> "none"]
    /\ fn_index = [s \in Subs |-> 0]
    /\ complete = [s \in Subs |-> NotComplete]
    /\ events = [s \in Subs |-> << >>]
    /\ event_id = [s \in Subs |-> 0]
    /\ websocket = [s \in Subs |-> "undefined"]
    /\ close_on_open = [s \in Subs |-> FALSE]
    /\ event_source = [s \in Subs |-> "undefined"]
    /\ posts = [s \in Subs |-> 0]
    /\ cancels = 0
    /\ resets = [s \in Subs |-> << >>]
    /\ event_callbacks = {}
    /\ unclosed_events = {}
    /\ pending_stream_messages = [e \in Subs |-> << >>]
    /\ pending_diff_streams = {}
    /\ stream = FALSE
    /\ event_streams = 0
    /\ cancel_outcomes = [s \in Subs |-> << >>]
    /\ listener_map = [s \in Subs |-> NoListeners]
    /\ invoked = [s \in Subs |-> << >>]
    /\ registers = [s \in Subs |-> [l \in Listeners |-> 0]]
    /\ last_call = NoCall
    /\ nframes = 0
    /\ arrived = [e \in Subs |-> << >>]
    /\ processed = [s \in Subs |-> << >>]

\* fire_event hands each event it is given to the listeners of its type:
\* the invocations caused by the events a step of submission s has fired.
\* Apart from on, off and destroy, only a listener that calls on changes
\* listener_map.
\* fire_event reading one listener map for every submission, that of the
\* client's first one, as it would were listener_map not a local of submit.
DStateShared(s) ==
    [lm |-> listener_map[CHOOSE r \in Subs : \A q \in Subs : r <= q],
     adds |-> registers[s], acc |-> invoked[s]]

DState(s) ==
    [lm |-> listener_map[s], adds |-> registers[s], acc |-> invoked[s]]

Dispatch(s) ==
    /\ LET d == Notify(DState(s), events'[s], Len(events[s]) + 1) IN
         /\ invoked' = [invoked EXCEPT ![s] = d.acc]
         /\ listener_map' = [listener_map EXCEPT ![s] = d.lm]
         /\ registers' = [registers EXCEPT ![s] = d.adds]
    /\ UNCHANGED last_call

(* ---------------------------------------------------------------------- *)
(* Frame handlers                                                          *)
(* ---------------------------------------------------------------------- *)

\* The part of the state one call of a frame handler reads and writes:
\* the submission's complete and event record, the two registries the
\* sse-mux callback deletes from, and the transport handle state.
HState(s) ==
    [complete |-> complete[s], events |-> events[s],
     cbs |-> event_callbacks, diffs |-> pending_diff_streams,
     stream |-> stream, es |-> event_source[s], closed |-> FALSE,
     calls |-> processed[s]]

\* Bookkeeping: one call of a frame handler, with whether the id had a
\* registered callback when the call was made.
Call(h, e, msg, n) ==
    [h EXCEPT !.calls = Append(@, [n |-> n, msg |-> msg, reg |-> e \in h.cbs])]

\* submit's local stream_open: destructured from `this`, where Client keeps
\* stream_status = { open } and no stream_open field, so it starts
\* undefined; its only assignment stores false.  It is falsy throughout.
stream_open == FALSE

\* open(...): establish the multiplex stream at /queue/data for the session.
\* It is idempotent on the open flag it is handed: a set flag leaves the
\* streams alone, a clear one opens an EventSource.  n counts the open ones.
open_stream(open, n) == IF open THEN n ELSE n + 1

\* close(streamHandle): close the transport the handle refers to and clear
\* the open flag; without a handle there is nothing to close.  Returns
\* whether the multiplex stream is open afterwards.
close_stream(open, handle, st) ==
    IF open /\ handle # "undefined" THEN FALSE ELSE st

\* if (data) { fire data; if (complete) { fire status{...complete,
\* stage: status?.stage!, queue: true}; <close> } } -- the tail shared by the
\* three frame handlers.  closes tells whether the handler closes its
\* transport handle after the release (ws, sse) or not (sse-mux).
DataAndRelease(h, m, n, closes) ==
    IF ~m.data THEN h
    ELSE LET h1 == [h EXCEPT !.events = fire_event(@, DataEv("frame", n))]
         IN  IF IsComplete(h1.complete)
             THEN [h1 EXCEPT
                     !.events = fire_event(@,
                         StatusEv(StageOf(m), TRUE, "release", n)),
                     !.closed = IF closes THEN TRUE ELSE @]
             ELSE h1

\* The callback with its cleanup run after every frame that carries a
\* status, terminal or not.
MuxCallbackUnregistersEarly(h0, e, msg, n, proto, f) ==
    LET m == HandleMessage(msg, last_status(f))
        h == Call(h0, e, msg, n)
    IN
    IF m.type = "throw"
    THEN \* catch (e): fire the default error; close_stream is handed
         \* submit's own stream_open and event_source
         [h EXCEPT
            !.events = fire_event(@, StatusEv("error", TRUE, "exception", n)),
            !.stream = IF proto \in {"sse_v2", "sse_v2.1"}
                       THEN close_stream(stream_open, h.es, @) ELSE @]
    ELSE IF m.type = "heartbeat" THEN h
    ELSE IF m.type = "log"
    THEN [h EXCEPT !.events = fire_event(@, LogEv(n))]
    ELSE
      LET h1 ==
            CASE m.type = "update" /\ m.stage # NoStatus
                            /\ ~IsComplete(h.complete) ->
                   [h EXCEPT !.events = fire_event(@,
                        StatusEv(m.stage, TRUE, "update", n))]
              [] m.type = "complete" ->
                   [h EXCEPT !.complete = m.stage]
              [] m.type = "unexpected_error" ->
                   [h EXCEPT !.events = fire_event(@,
                        StatusEv("error", TRUE, "unexpected_error", n))]
              [] m.type = "generating" ->
                   [h EXCEPT
                      !.events = fire_event(@,
                        StatusEv(StageOf(m), TRUE, "generating", n)),
                      !.diffs = IF m.data /\ proto \in DiffProtocols
                                THEN @ \cup {e} ELSE @]
              [] OTHER -> h
          h2 == DataAndRelease(h1, m, n, FALSE)
      IN  IF m.stage # NoStatus
          THEN [h2 EXCEPT !.cbs = @ \ {e}, !.diffs = @ \ {e}]
          ELSE h2

\* The callback built for an sse-mux submission with event id e, applied to
\* frame number n with the given msg.
MuxCallback(h0, e, msg, n, proto, f) ==
    LET m == HandleMessage(msg, last_status(f))
        h == Call(h0, e, msg, n)
    IN
    IF m.type = "throw"
    THEN \* catch (e): fire the default error; close_stream is handed
         \* submit's own stream_open and event_source
         [h EXCEPT
            !.events = fire_event(@, StatusEv("error", TRUE, "exception", n)),
            !.stream = IF proto \in {"sse_v2", "sse_v2.1"}
                       THEN close_stream(stream_open, h.es, @) ELSE @]
    ELSE IF m.type = "heartbeat" THEN h
    ELSE IF m.type = "log"
    THEN [h EXCEPT !.events = fire_event(@, LogEv(n))]
    ELSE
      LET h1 ==
            CASE m.type = "update" /\ m.stage # NoStatus
                            /\ ~IsComplete(h.complete) ->
                   [h EXCEPT !.events = fire_event(@,
                        StatusEv(m.stage, TRUE, "update", n))]
              [] m.type = "complete" ->
                   [h EXCEPT !.complete = m.stage]
              [] m.type = "unexpected_error" ->
                   [h EXCEPT !.events = fire_event(@,
                        StatusEv("error", TRUE, "unexpected_error", n))]
              [] m.type = "generating" ->
                   [h EXCEPT
                      !.events = fire_event(@,
                        StatusEv(StageOf(m), TRUE, "generating", n)),
                      !.diffs = IF m.data /\ proto \in DiffProtocols
                                THEN @ \cup {e} ELSE @]
              [] OTHER -> h
          h2 == DataAndRelease(h1, m, n, FALSE)
      IN  IF m.stage \in {"complete", "error"}
          THEN [h2 EXCEPT !.cbs = @ \ {e}, !.diffs = @ \ {e}]
          ELSE h2

\* The drain with its loop started one entry late: the first buffered frame
\* is never handed to the callback.
RECURSIVE DrainPendingFrom(_, _, _, _, _)
DrainPendingFrom(h, e, frames, proto, f) ==
    IF frames = << >> THEN h
    ELSE DrainPendingFrom(
            MuxCallback(h, e, Head(frames).msg, Head(frames).n, proto, f),
            e, Tail(frames), proto, f)

DrainPendingSkipsFirst(h, e, frames, proto, f) ==
    IF frames = << >> THEN h
    ELSE DrainPendingFrom(h, e, Tail(frames), proto, f)

\* The drain walking the buffer from its newest entry to its oldest.
RECURSIVE DrainPendingReversed(_, _, _, _, _)
DrainPendingReversed(h, e, frames, proto, f) ==
    IF frames = << >> THEN h
    ELSE LET last == frames[Len(frames)] IN
         DrainPendingReversed(
            MuxCallback(h, e, last.msg, last.n, proto, f),
            e, SubSeq(frames, 1, Len(frames) - 1), proto, f)

\* pending_stream_messages[event_id].forEach((msg) => callback(msg))
RECURSIVE DrainPending(_, _, _, _, _)
DrainPending(h, e, frames, proto, f) ==
    IF frames = << >> THEN h
    ELSE DrainPending(
            MuxCallback(h, e, Head(frames).msg, Head(frames).n, proto, f),
            e, Tail(frames), proto, f)

\* websocket.onmessage
WsOnMessage(h, msg, n, f) ==
    LET m == HandleMessage(msg, last_status(f)) IN
    IF m.type = "hash" THEN h
    ELSE
      LET h1 ==
            CASE m.type = "update" /\ m.stage # NoStatus
                            /\ ~IsComplete(h.complete) ->
                   [h EXCEPT
                      !.events = fire_event(@,
                        StatusEv(m.stage, TRUE, "update", n)),
                      !.closed = IF m.stage = "error" THEN TRUE ELSE @]
              [] m.type = "complete" ->
                   [h EXCEPT !.complete = m.stage]
              [] m.type = "log" ->
                   [h EXCEPT !.events = fire_event(@, LogEv(n))]
              [] m.type = "generating" ->
                   [h EXCEPT !.events = fire_event(@,
                        StatusEv(StageOf(m), TRUE, "generating", n))]
              [] OTHER -> h
      IN  DataAndRelease(h1, m, n, TRUE)

\* event_source.onmessage of the dedicated (sse-legacy) stream, up to its
\* await: the data branch posts the payload and resumes in SsePostReply.
SseOnMessage(h, msg, n, f) ==
    LET m == HandleMessage(msg, last_status(f)) IN
    LET h1 ==
          CASE m.type = "update" /\ m.stage # NoStatus
                          /\ ~IsComplete(h.complete) ->
                 [h EXCEPT
                    !.events = fire_event(@,
                      StatusEv(m.stage, TRUE, "update", n)),
                    !.closed = IF m.stage = "error" THEN TRUE ELSE @]
            [] m.type = "complete" ->
                 [h EXCEPT !.complete = m.stage]
            [] m.type = "log" ->
                 [h EXCEPT !.events = fire_event(@, LogEv(n))]
            [] m.type = "generating" ->
                 [h EXCEPT !.events = fire_event(@,
                      StatusEv(StageOf(m), TRUE, "generating", n))]
            [] OTHER -> h
    IN  DataAndRelease(h1, m, n, TRUE)

(* ---------------------------------------------------------------------- *)
(* Actions: submit and payload preparation                                 *)
(* ---------------------------------------------------------------------- *)

\* submit returned its handle { on, off, cancel, destroy } for s: it was
\* called and did not throw.
HasHandle(s) == pc[s] \notin {"none", "threw"}

\* The ways an endpoint can fail to resolve: the session has no discovered
\* api; a name that is not a key of api_map; a name that api_map knows but
\* named_endpoints has no entry for; a numeric index that unnamed_endpoints
\* has no entry for.
UnresolvedEndpoints ==
    {"no_api", "name_not_in_api_map", "name_not_in_named_endpoints",
     "index_not_in_unnamed_endpoints"}

\* get_endpoint_info: a number is its own fn_index, a name gets
\* api_map[name]; api_info is looked up but never tested.  The only throw
\* is for typeof fn_index !== "number", i.e. a name api_map does not have.
get_endpoint_info(ep) ==
    IF ep = "name_not_in_api_map" THEN "throw" ELSE "fn_index"

\* submit called with an endpoint that does not resolve.  `if (!api) throw`
\* and get_endpoint_info's throw leave everything untouched; otherwise
\* submit goes on with an undefined api_info, starts handle_blob and
\* returns the handle.  f is the index the name maps to, or the number.
SubmitUnresolved(s, ep, f) ==
    /\ pc[s] = "none"
    /\ \A t \in Subs : t < s => pc[t] # "none"
    /\ IF ep = "no_api" \/ get_endpoint_info(ep) = "throw"
       THEN /\ pc' = [pc EXCEPT ![s] = "threw"]
            /\ UNCHANGED fn_index
       ELSE /\ pc' = [pc EXCEPT ![s] = "prep_no_info"]
            /\ fn_index' = [fn_index EXCEPT ![s] = f]
    /\ UNCHANGED <<protocol, complete, events, event_id, websocket,
                   close_on_open, event_source, posts, cancels,
                   cancel_outcomes, resets, nframes, arrived, processed>>
    /\ UNCHANGED muxVars
    /\ Dispatch(s)
    /\ session_hash' = [session_hash EXCEPT ![s] =
          IF pc'[s] = "threw" THEN @ ELSE client_session_hash]
    /\ UNCHANGED requests
    /\ UNCHANGED clientVars

\* submit drawing a session hash of its own on every call, as
\* Math.random().toString(36).substring(2) in submit would.
SubmitOwnHash(s, f) ==
    /\ pc[s] = "none"
    /\ \A r \in Subs : r < s => pc[r] # "none"
    /\ pc' = [pc EXCEPT ![s] = "prep"]
    /\ fn_index' = [fn_index EXCEPT ![s] = f]
    /\ session_hash' \in {[session_hash EXCEPT ![s] = h] : h \in SessionHashes}
    /\ UNCHANGED <<protocol, complete, events, event_id, websocket,
                   close_on_open, event_source, posts, cancels,
                   cancel_outcomes, resets, nframes, arrived, processed,
                   requests>>
    /\ UNCHANGED muxVars
    /\ UNCHANGED clientVars
    /\ Dispatch(s)

\* submit(endpoint, ...) resolves the endpoint, starts handle_blob and
\* returns the handle.  Submissions are numbered in the order of the calls.
Submit(s, f) ==
    /\ pc[s] = "none"
    /\ \A t \in Subs : t < s => pc[t] # "none"
    /\ pc' = [pc EXCEPT ![s] = "prep"]
    /\ fn_index' = [fn_index EXCEPT ![s] = f]
    /\ UNCHANGED <<protocol, complete, events, event_id, websocket,
                   close_on_open, event_source, posts, cancels, cancel_outcomes, resets,
                   nframes, arrived, processed>>
    /\ UNCHANGED muxVars
    /\ Dispatch(s)
    /\ session_hash' = [session_hash EXCEPT ![s] = client_session_hash]
    /\ UNCHANGED requests
    /\ UNCHANGED clientVars

\* The .then callback with the protocol tested before skip_queue.
BlobResolvedProtocolFirst(s) ==
    /\ pc[s] \in {"prep", "prep_no_info"}
    /\ IF protocol = "ws"
       THEN /\ pc' = [pc EXCEPT ![s] = "ws_endpoint"]
            /\ UNCHANGED <<events, event_source>>
       ELSE IF protocol = "sse"
       THEN /\ events' = [events EXCEPT ![s] =
                 fire_event(@, StatusEv("pending", TRUE, "pending", 0))]
            /\ event_source' = [event_source EXCEPT ![s] = "open"]
            /\ pc' = [pc EXCEPT ![s] = "sse"]
       ELSE IF protocol \in MuxProtocols
       THEN /\ events' = [events EXCEPT ![s] =
                 fire_event(@, StatusEv("pending", TRUE, "pending", 0))]
            /\ pc' = [pc EXCEPT ![s] = "mux_post"]
            /\ UNCHANGED event_source
       ELSE IF skip_queue(fn_index[s])
       THEN /\ events' = [events EXCEPT ![s] =
                 fire_event(@, StatusEv("pending", FALSE, "pending", 0))]
            /\ pc' = [pc EXCEPT ![s] = "direct_post"]
            /\ UNCHANGED event_source
       ELSE /\ pc' = [pc EXCEPT ![s] = "no_branch"]
            /\ UNCHANGED <<events, event_source>>
    /\ UNCHANGED <<protocol, fn_index, complete, event_id, websocket,
                   close_on_open, posts, cancels, cancel_outcomes, resets,
                   nframes, arrived, processed>>
    /\ UNCHANGED muxVars
    /\ Dispatch(s)
    /\ UNCHANGED session_hash
    /\ requests' = [requests EXCEPT ![s] =
          IF pc'[s] = "direct_post" THEN send(@, "run", session_hash[s])
          ELSE IF pc'[s] = "sse" THEN send(@, "join_get", session_hash[s])
          ELSE IF pc'[s] = "mux_post" THEN send(@, "join", session_hash[s])
          ELSE @]
    /\ UNCHANGED clientVars

\* handle_blob(...) resolves: the .then callback up to its first await.
BlobResolved(s) ==
    /\ pc[s] \in {"prep", "prep_no_info"}
    /\ IF skip_queue(fn_index[s])
       THEN /\ events' = [events EXCEPT ![s] =
                 fire_event(@, StatusEv("pending", FALSE, "pending", 0))]
            /\ pc' = [pc EXCEPT ![s] = "direct_post"]
            /\ UNCHANGED event_source
       ELSE IF protocol = "ws"
       THEN /\ pc' = [pc EXCEPT ![s] = "ws_endpoint"]
            /\ UNCHANGED <<events, event_source>>
       ELSE IF protocol = "sse"
       THEN /\ events' = [events EXCEPT ![s] =
                 fire_event(@, StatusEv("pending", TRUE, "pending", 0))]
            /\ event_source' = [event_source EXCEPT ![s] = "open"]
            /\ pc' = [pc EXCEPT ![s] = "sse"]
       ELSE IF protocol \in MuxProtocols
       THEN /\ events' = [events EXCEPT ![s] =
                 fire_event(@, StatusEv("pending", TRUE, "pending", 0))]
            /\ pc' = [pc EXCEPT ![s] = "mux_post"]
            /\ UNCHANGED event_source
       ELSE /\ pc' = [pc EXCEPT ![s] = "no_branch"]
            /\ UNCHANGED <<events, event_source>>
    /\ UNCHANGED <<protocol, fn_index, complete, event_id, websocket,
                   close_on_open, posts, cancels, cancel_outcomes, resets,
                   nframes, arrived, processed>>
    /\ UNCHANGED muxVars
    /\ Dispatch(s)
    /\ UNCHANGED session_hash
    /\ requests' = [requests EXCEPT ![s] =
          IF pc'[s] = "direct_post" THEN send(@, "run", session_hash[s])
          ELSE IF pc'[s] = "sse" THEN send(@, "join_get", session_hash[s])
          ELSE IF pc'[s] = "mux_post" THEN send(@, "join", session_hash[s])
          ELSE @]
    /\ UNCHANGED clientVars

\* handle_blob(...) rejects (an upload failed): the chain has no rejection
\* handler, so nothing of submit runs again for this submission.
BlobRejected(s) ==
    /\ pc[s] \in {"prep", "prep_no_info"}
    /\ pc' = [pc EXCEPT ![s] = "blob_failed"]
    /\ UNCHANGED <<protocol, fn_index, complete, events, event_id, websocket,
                   close_on_open, event_source, posts, cancels, cancel_outcomes, resets,
                   nframes, arrived, processed>>
    /\ UNCHANGED muxVars
    /\ Dispatch(s)
    /\ UNCHANGED <<session_hash, requests>>
    /\ UNCHANGED clientVars

(* ---------------------------------------------------------------------- *)
(* Actions: direct transport                                               *)
(* ---------------------------------------------------------------------- *)

\* The direct reply handler firing the complete status before the data.
DirectReplyStatusFirst(s, outcome) ==
    /\ pc[s] = "direct_post"
    /\ pc' = [pc EXCEPT ![s] = "direct_done"]
    /\ events' = [events EXCEPT ![s] =
          IF outcome = "200"
          THEN fire_event(fire_event(@, StatusEv("complete", FALSE, "direct", 0)),
                          DataEv("direct", 0))
          ELSE IF outcome = "non200"
          THEN fire_event(@, StatusEv("error", FALSE, "direct", 0))
          ELSE fire_event(@, StatusEv("error", FALSE, "direct_catch", 0))]
    /\ UNCHANGED <<protocol, fn_index, complete, event_id, websocket,
                   close_on_open, event_source, posts, cancels, cancel_outcomes, resets,
                   nframes, arrived, processed>>
    /\ UNCHANGED muxVars
    /\ Dispatch(s)
    /\ UNCHANGED <<session_hash, requests>>
    /\ UNCHANGED clientVars

\* post_data(`${root}/run...`) settles: 200, another status, or a rejection.
DirectReply(s, outcome) ==
    /\ pc[s] = "direct_post"
    /\ pc' = [pc EXCEPT ![s] = "direct_done"]
    /\ events' = [events EXCEPT ![s] =
          IF outcome = "200"
          THEN fire_event(fire_event(@, DataEv("direct", 0)),
                          StatusEv("complete", FALSE, "direct", 0))
          ELSE IF outcome = "non200"
          THEN fire_event(@, StatusEv("error", FALSE, "direct", 0))
          ELSE fire_event(@, StatusEv("error", FALSE, "direct_catch", 0))]
    /\ UNCHANGED <<protocol, fn_index, complete, event_id, websocket,
                   close_on_open, event_source, posts, cancels, cancel_outcomes, resets,
                   nframes, arrived, processed>>
    /\ UNCHANGED muxVars
    /\ Dispatch(s)
    /\ UNCHANGED <<session_hash, requests>>
    /\ UNCHANGED clientVars

DirectOutcomes == {"200", "non200", "exception"}

(* ---------------------------------------------------------------------- *)
(* Actions: ws transport                                                   *)
(* ---------------------------------------------------------------------- *)

\* The ws branch creating the socket without firing the pending status.
ProcessEndpointResolvedSilent(s) ==
    /\ pc[s] = "ws_endpoint"
    /\ pc' = [pc EXCEPT ![s] = "ws"]
    /\ websocket' = [websocket EXCEPT ![s] = "connecting"]
    /\ UNCHANGED <<protocol, fn_index, complete, events, event_id,
                   close_on_open, event_source, posts, cancels,
                   cancel_outcomes, resets, nframes, arrived, processed>>
    /\ UNCHANGED muxVars
    /\ Dispatch(s)
    /\ UNCHANGED <<session_hash, requests>>
    /\ UNCHANGED clientVars

\* await process_endpoint(...) resolves: fire pending, create the socket
\* (readyState CONNECTING) and install onclose / onmessage.
ProcessEndpointResolved(s) ==
    /\ pc[s] = "ws_endpoint"
    /\ pc' = [pc EXCEPT ![s] = "ws"]
    /\ events' = [events EXCEPT ![s] =
          fire_event(@, StatusEv("pending", TRUE, "pending", 0))]
    /\ websocket' = [websocket EXCEPT ![s] = "connecting"]
    /\ UNCHANGED <<protocol, fn_index, complete, event_id,
                   close_on_open, event_source, posts, cancels, cancel_outcomes, resets,
                   nframes, arrived, processed>>
    /\ UNCHANGED muxVars
    /\ Dispatch(s)
    /\ UNCHANGED <<session_hash, requests>>
    /\ UNCHANGED clientVars

\* await process_endpoint(...) rejects inside the async .then callback.
ProcessEndpointRejected(s) ==
    /\ pc[s] = "ws_endpoint"
    /\ pc' = [pc EXCEPT ![s] = "ws_failed"]
    /\ UNCHANGED <<protocol, fn_index, complete, events, event_id, websocket,
                   close_on_open, event_source, posts, cancels, cancel_outcomes, resets,
                   nframes, arrived, processed>>
    /\ UNCHANGED muxVars
    /\ Dispatch(s)
    /\ UNCHANGED <<session_hash, requests>>
    /\ UNCHANGED clientVars

\* The socket opens; the "open" listener cancel() may have added closes it.
WsOpen(s) ==
    /\ websocket[s] = "connecting"
    /\ websocket' = [websocket EXCEPT ![s] =
          IF close_on_open[s] THEN "closing" ELSE "open"]
    /\ UNCHANGED <<protocol, pc, fn_index, complete, events, event_id,
                   close_on_open, event_source, posts, cancels, cancel_outcomes, resets,
                   nframes, arrived, processed>>
    /\ UNCHANGED muxVars
    /\ Dispatch(s)
    /\ UNCHANGED <<session_hash, requests>>
    /\ UNCHANGED clientVars

\* A frame arrives on the open socket: websocket.onmessage.
WsMessage(s, msg) ==
    /\ websocket[s] = "open"
    /\ nframes < MaxFrames
    /\ nframes' = nframes + 1
    /\ LET h == WsOnMessage(HState(s), msg, nframes + 1, fn_index[s]) IN
         /\ complete' = [complete EXCEPT ![s] = h.complete]
         /\ events' = [events EXCEPT ![s] = h.events]
         /\ websocket' = [websocket EXCEPT ![s] =
               IF h.closed THEN "closing" ELSE @]
    /\ processed' = [processed EXCEPT ![s] =
          Append(@, [n |-> nframes + 1, msg |-> msg, reg |-> TRUE])]
    /\ UNCHANGED <<protocol, pc, fn_index, event_id,
                   close_on_open, event_source, posts, cancels, cancel_outcomes, resets,
                   arrived>>
    /\ UNCHANGED muxVars
    /\ Dispatch(s)
    /\ UNCHANGED session_hash
    /\ requests' = [requests EXCEPT ![s] =
          LET m == HandleMessage(msg, last_status(fn_index[s])) IN
            IF m.type = "hash" THEN send(@, "ws_hash", session_hash[s])
            ELSE IF m.type = "data" THEN send(@, "ws_data", session_hash[s])
            ELSE @]
    /\ UNCHANGED clientVars

\* The socket closes (handshake done, refused, or connection lost):
\* websocket.onclose.
WsClosed(s, wasClean) ==
    /\ websocket[s] \in {"connecting", "open", "closing"}
    /\ websocket' = [websocket EXCEPT ![s] = "closed"]
    /\ events' = [events EXCEPT ![s] =
          IF ~wasClean
          THEN fire_event(@, StatusEv("error", TRUE, "broken", 0))
          ELSE @]
    /\ UNCHANGED <<protocol, pc, fn_index, complete, event_id,
                   close_on_open, event_source, posts, cancels, cancel_outcomes, resets,
                   nframes, arrived, processed>>
    /\ UNCHANGED muxVars
    /\ Dispatch(s)
    /\ UNCHANGED <<session_hash, requests>>
    /\ UNCHANGED clientVars

(* ---------------------------------------------------------------------- *)
(* Actions: sse-legacy transport                                           *)
(* ---------------------------------------------------------------------- *)

\* A frame arrives on the dedicated EventSource: event_source.onmessage up
\* to its await.  The data branch binds event_id (the server names the
\* submission's job after the submission) and posts to /queue/data.
SseMessage(s, msg) ==
    /\ pc[s] = "sse"
    /\ event_source[s] = "open"
    /\ nframes < MaxFrames
    /\ nframes' = nframes + 1
    /\ LET m == HandleMessage(msg, last_status(fn_index[s]))
           h == SseOnMessage(HState(s), msg, nframes + 1, fn_index[s])
           posting == m.type = "data"
       IN
         /\ complete' = [complete EXCEPT ![s] = h.complete]
         /\ events' = [events EXCEPT ![s] = h.events]
         /\ event_source' = [event_source EXCEPT ![s] =
               IF h.closed THEN "closed" ELSE @]
         /\ event_id' = [event_id EXCEPT ![s] = IF posting THEN s ELSE @]
         /\ posts' = [posts EXCEPT ![s] = IF posting THEN @ + 1 ELSE @]
    /\ processed' = [processed EXCEPT ![s] =
          Append(@, [n |-> nframes + 1, msg |-> msg, reg |-> TRUE])]
    /\ UNCHANGED <<protocol, pc, fn_index, websocket,
                   close_on_open, cancels, cancel_outcomes, resets, arrived>>
    /\ UNCHANGED muxVars
    /\ Dispatch(s)
    /\ UNCHANGED session_hash
    /\ requests' = [requests EXCEPT ![s] =
          IF posts'[s] > posts[s]
          THEN send(@, "queue_data", session_hash[s]) ELSE @]
    /\ UNCHANGED clientVars

\* await post_data(`${root}/queue/data`) resumes the handler.
SsePostReply(s, ok) ==
    /\ posts[s] > 0
    /\ posts' = [posts EXCEPT ![s] = @ - 1]
    /\ events' = [events EXCEPT ![s] =
          IF ok THEN @
          ELSE fire_event(@, StatusEv("error", TRUE, "post_failed", 0))]
    /\ event_source' = [event_source EXCEPT ![s] =
          IF ok THEN @ ELSE "closed"]
    /\ UNCHANGED <<protocol, pc, fn_index, complete, event_id, websocket,
                   close_on_open, cancels, cancel_outcomes, resets,
                   nframes, arrived, processed>>
    /\ UNCHANGED muxVars
    /\ Dispatch(s)
    /\ UNCHANGED <<session_hash, requests>>
    /\ UNCHANGED clientVars

(* ---------------------------------------------------------------------- *)
(* Actions: sse-mux transport                                              *)
(* ---------------------------------------------------------------------- *)

\* The server names the job of submission s after s: ids are unique.
EventIdOf(s) == s

\* pending_stream_messages maps an id to the frames buffered for it; an
\* entry exists exactly when it holds a frame (it is created by the first
\* push and removed by delete), so the empty sequence stands for "absent".
Frame(msg, n) == [msg |-> msg, n |-> n]

\* The join reply handler registering the submission before it looks at
\* the status code.
MuxReplyRegistersFirst(s, status) ==
    /\ pc[s] = "mux_post"
    /\ IF status = 503
       THEN /\ events' = [events EXCEPT ![s] =
                 fire_event(@, StatusEv("error", TRUE, "queue_full", 0))]
            /\ pc' = [pc EXCEPT ![s] = "mux_full"]
            /\ event_callbacks' = event_callbacks \cup {EventIdOf(s)}
            /\ unclosed_events' = unclosed_events \cup {EventIdOf(s)}
            /\ UNCHANGED <<complete, event_id, processed,
                           pending_stream_messages, pending_diff_streams,
                           stream, event_streams>>
       ELSE IF status # 200
       THEN /\ events' = [events EXCEPT ![s] =
                 fire_event(@, StatusEv("error", TRUE, "join_failed", 0))]
            /\ pc' = [pc EXCEPT ![s] = "mux_failed"]
            /\ event_callbacks' = event_callbacks \cup {EventIdOf(s)}
            /\ unclosed_events' = unclosed_events \cup {EventIdOf(s)}
            /\ UNCHANGED <<complete, event_id, processed,
                           pending_stream_messages, pending_diff_streams,
                           stream, event_streams>>
       ELSE LET e == EventIdOf(s)
                h == DrainPending(HState(s), e, pending_stream_messages[e],
                                  protocol, fn_index[s])
            IN  /\ event_id' = [event_id EXCEPT ![s] = e]
                /\ complete' = [complete EXCEPT ![s] = h.complete]
                /\ events' = [events EXCEPT ![s] = h.events]
                /\ processed' = [processed EXCEPT ![s] = h.calls]
                /\ pending_stream_messages' =
                      [pending_stream_messages EXCEPT ![e] = << >>]
                /\ pending_diff_streams' = h.diffs
                /\ event_callbacks' = h.cbs \cup {e}
                /\ unclosed_events' = unclosed_events \cup {e}
                /\ event_streams' =
                      IF ~stream_open
                      THEN open_stream(stream_open, event_streams)
                      ELSE event_streams
                /\ stream' = (event_streams' > 0)
                /\ pc' = [pc EXCEPT ![s] = "mux"]
    /\ UNCHANGED <<protocol, fn_index, websocket, close_on_open,
                   event_source, posts, cancels, cancel_outcomes, resets,
                   nframes, arrived>>
    /\ Dispatch(s)
    /\ UNCHANGED session_hash
    /\ requests' = [requests EXCEPT ![s] =
          IF event_streams' > event_streams
          THEN send(@, "stream", session_hash[s]) ELSE @]
    /\ UNCHANGED clientVars

\* post_data(`${root}/queue/join`) settles with a status code: the .then
\* handler of post_data_promise.
MuxReply(s, status) ==
    /\ pc[s] = "mux_post"
    /\ IF status = 503
       THEN /\ events' = [events EXCEPT ![s] =
                 fire_event(@, StatusEv("error", TRUE, "queue_full", 0))]
            /\ pc' = [pc EXCEPT ![s] = "mux_full"]
            /\ UNCHANGED <<complete, event_id, processed>>
            /\ UNCHANGED muxVars
       ELSE IF status # 200
       THEN /\ events' = [events EXCEPT ![s] =
                 fire_event(@, StatusEv("error", TRUE, "join_failed", 0))]
            /\ pc' = [pc EXCEPT ![s] = "mux_failed"]
            /\ UNCHANGED <<complete, event_id, processed>>
            /\ UNCHANGED muxVars
       ELSE LET e == EventIdOf(s)
                h == DrainPending(HState(s), e, pending_stream_messages[e],
                                  protocol, fn_index[s])
            IN  /\ event_id' = [event_id EXCEPT ![s] = e]
                /\ complete' = [complete EXCEPT ![s] = h.complete]
                /\ events' = [events EXCEPT ![s] = h.events]
                /\ processed' = [processed EXCEPT ![s] = h.calls]
                /\ pending_stream_messages' =
                      [pending_stream_messages EXCEPT ![e] = << >>]
                /\ pending_diff_streams' = h.diffs
                /\ event_callbacks' = h.cbs \cup {e}
                /\ unclosed_events' = unclosed_events \cup {e}
                /\ event_streams' =
                      IF ~stream_open
                      THEN open_stream(stream_open, event_streams)
                      ELSE event_streams
                /\ stream' = (event_streams' > 0)
                /\ pc' = [pc EXCEPT ![s] = "mux"]
    /\ UNCHANGED <<protocol, fn_index, websocket, close_on_open,
                   event_source, posts, cancels, cancel_outcomes, resets,
                   nframes, arrived>>
    /\ Dispatch(s)
    /\ UNCHANGED session_hash
    /\ requests' = [requests EXCEPT ![s] =
          IF event_streams' > event_streams
          THEN send(@, "stream", session_hash[s]) ELSE @]
    /\ UNCHANGED clientVars

JoinStatuses == {200, 503, 500}

\* The POST to /queue/join is answered 200 with a body that has no
\* event_id: `event_id = response.event_id` stores undefined, no buffer is
\* keyed by it, and the callback is stored and the id added to
\* unclosed_events without a test.  0 stands for the missing id, as in
\* event_id; the stream is opened as after any 200 reply.
MuxReplyNoId(s) ==
    /\ pc[s] = "mux_post"
    /\ pc' = [pc EXCEPT ![s] = "mux_noid"]
    /\ event_callbacks' = event_callbacks \cup {0}
    /\ unclosed_events' = unclosed_events \cup {0}
    /\ event_streams' =
          IF ~stream_open
          THEN open_stream(stream_open, event_streams)
          ELSE event_streams
    /\ stream' = (event_streams' > 0)
    /\ UNCHANGED <<pending_stream_messages, pending_diff_streams>>
    /\ UNCHANGED <<protocol, fn_index, complete, events, event_id, websocket,
                   close_on_open, event_source, posts, cancels,
                   cancel_outcomes, resets, nframes, arrived, processed>>
    /\ Dispatch(s)
    /\ UNCHANGED session_hash
    /\ requests' = [requests EXCEPT ![s] =
          IF event_streams' > event_streams
          THEN send(@, "stream", session_hash[s]) ELSE @]
    /\ UNCHANGED clientVars

\* One of the open multiplex EventSources delivers a frame carrying
\* event_id e: the onmessage handler open_stream installs.  A registered
\* callback is invoked; for the protocols before sse_v3 a process_completed
\* frame first takes e out of unclosed_events and, when none is left, closes
\* the EventSource that delivered it.  Without a callback the frame is
\* buffered.
StreamFrame(e, msg) ==
    /\ stream
    /\ pc[e] \in {"mux_post", "mux"}
    /\ nframes < MaxFrames
    /\ nframes' = nframes + 1
    /\ arrived' = [arrived EXCEPT ![e] =
          Append(@, [n |-> nframes + 1, early |-> pc[e] = "mux_post"])]
    /\ IF e \in event_callbacks
       THEN LET done == IsProcessCompleted(msg) /\ protocol # "sse_v3"
                unclosed == IF done THEN unclosed_events \ {e}
                            ELSE unclosed_events
                streams == IF done /\ unclosed = {}
                           THEN event_streams - 1 ELSE event_streams
                h == MuxCallback([HState(e) EXCEPT !.stream = (streams > 0)],
                                 e, msg, nframes + 1, protocol, fn_index[e])
            IN  /\ complete' = [complete EXCEPT ![e] = h.complete]
                /\ events' = [events EXCEPT ![e] = h.events]
                /\ event_callbacks' = h.cbs
                /\ pending_diff_streams' = h.diffs
                /\ unclosed_events' = unclosed
                /\ event_streams' = IF h.stream THEN streams ELSE 0
                /\ stream' = h.stream
                /\ processed' = [processed EXCEPT ![e] = h.calls]
                /\ UNCHANGED pending_stream_messages
       ELSE /\ pending_stream_messages' =
                 [pending_stream_messages EXCEPT ![e] =
                     Append(@, Frame(msg, nframes + 1))]
            /\ UNCHANGED <<complete, events, event_callbacks,
                           pending_diff_streams, unclosed_events, stream,
                           event_streams, processed>>
    /\ UNCHANGED <<protocol, pc, fn_index, event_id, websocket,
                   close_on_open, event_source, posts, cancels,
                   cancel_outcomes, resets>>
    /\ Dispatch(e)
    /\ UNCHANGED <<session_hash, requests>>
    /\ UNCHANGED clientVars

\* The server's close_stream frame (sse_v3): the EventSource that
\* delivered it is closed.
StreamCloseFrame ==
    /\ stream
    /\ protocol = "sse_v3"
    /\ event_streams' = event_streams - 1
    /\ stream' = (event_streams' > 0)
    /\ UNCHANGED <<protocol, nframes, arrived, processed, listener_map,
                   invoked, registers, last_call>>
    /\ UNCHANGED subVars
    /\ UNCHANGED <<event_callbacks, unclosed_events,
                   pending_stream_messages, pending_diff_streams>>
    /\ UNCHANGED clientVars

(* ---------------------------------------------------------------------- *)
(* Actions: cancel                                                         *)
(* ---------------------------------------------------------------------- *)

\* cancel() of submission s.  It stores the synthetic status in complete
\* and fires it, then closes the handle its protocol branch names; closing
\* a handle that was never assigned throws, which rejects cancel's promise
\* before the /reset request is made.
CancelThrows(s) ==
    IF protocol = "ws" THEN websocket[s] = "undefined"
    ELSE event_source[s] = "undefined"

\* cancel() closing every dedicated stream of the session, as it would
\* with one event_source shared by the submissions.
CancelClosesEvery(s) ==
    /\ HasHandle(s)
    /\ cancels' = cancels + 1
    /\ complete' = [complete EXCEPT ![s] = "complete"]
    /\ events' = [events EXCEPT ![s] =
          fire_event(@, StatusEv("complete", FALSE, "cancel", 0))]
    /\ IF protocol = "ws"
       THEN /\ close_on_open' = [close_on_open EXCEPT ![s] =
                 IF websocket[s] = "connecting" THEN TRUE ELSE @]
            /\ websocket' = [websocket EXCEPT ![s] =
                 IF @ = "open" THEN "closing" ELSE @]
            /\ UNCHANGED event_source
       ELSE /\ event_source' = [r \in Subs |->
                 IF event_source[r] = "open" THEN "closed"
                 ELSE event_source[r]]
            /\ UNCHANGED <<websocket, close_on_open>>
    /\ resets' = [resets EXCEPT ![s] =
          IF CancelThrows(s) THEN @
          ELSE IF protocol = "ws"
          THEN Append(@, [body |-> "fn_index,session_hash", id |-> 0])
          ELSE Append(@, [body |-> "event_id", id |-> event_id[s]])]
    /\ cancel_outcomes' = [cancel_outcomes EXCEPT ![s] =
          Append(@, IF CancelThrows(s) THEN "rejected" ELSE "resolved")]
    /\ UNCHANGED <<protocol, pc, fn_index, event_id, posts,
                   nframes, arrived, processed>>
    /\ UNCHANGED muxVars
    /\ Dispatch(s)
    /\ UNCHANGED session_hash
    /\ requests' = [requests EXCEPT ![s] =
          IF protocol = "ws" /\ ~CancelThrows(s)
          THEN send(@, "reset", session_hash[s]) ELSE @]
    /\ UNCHANGED clientVars

Cancel(s) ==
    /\ HasHandle(s)
    /\ cancels' = cancels + 1
    /\ complete' = [complete EXCEPT ![s] = "complete"]
    /\ events' = [events EXCEPT ![s] =
          fire_event(@, StatusEv("complete", FALSE, "cancel", 0))]
    /\ IF protocol = "ws"
       THEN /\ close_on_open' = [close_on_open EXCEPT ![s] =
                 IF websocket[s] = "connecting" THEN TRUE ELSE @]
            /\ websocket' = [websocket EXCEPT ![s] =
                 IF @ = "open" THEN "closing" ELSE @]
            /\ UNCHANGED event_source
       ELSE /\ event_source' = [event_source EXCEPT ![s] =
                 IF @ = "open" THEN "closed" ELSE @]
            /\ UNCHANGED <<websocket, close_on_open>>
    /\ resets' = [resets EXCEPT ![s] =
          IF CancelThrows(s) THEN @
          ELSE IF protocol = "ws"
          THEN Append(@, [body |-> "fn_index,session_hash", id |-> 0])
          ELSE Append(@, [body |-> "event_id", id |-> event_id[s]])]
    /\ cancel_outcomes' = [cancel_outcomes EXCEPT ![s] =
          Append(@, IF CancelThrows(s) THEN "rejected" ELSE "resolved")]
    /\ UNCHANGED <<protocol, pc, fn_index, event_id, posts,
                   nframes, arrived, processed>>
    /\ UNCHANGED muxVars
    /\ Dispatch(s)
    /\ UNCHANGED session_hash
    /\ requests' = [requests EXCEPT ![s] =
          IF protocol = "ws" /\ ~CancelThrows(s)
          THEN send(@, "reset", session_hash[s]) ELSE @]
    /\ UNCHANGED clientVars

(* ---------------------------------------------------------------------- *)
(* Actions: the listener methods of the handle                             *)
(* ---------------------------------------------------------------------- *)

\* Bookkeeping: the call being made, with the listeners and the numbers of
\* invocations and of events it found, and its number among the calls of
\* the run.
HandleCall(op, s, type, l) ==
    [op |-> op, s |-> s, type |-> type, l |-> l,
     before |-> listener_map[s], invoked |-> Len(invoked[s]),
     events |-> Len(events[s]), k |-> last_call.k + 1]

\* Listeners registered on the handle of s, over all types.
Registrations(s) ==
    Len(listener_map[s]["data"]) + Len(listener_map[s]["status"])
        + Len(listener_map[s]["log"])

\* on(eventType, listener) on the handle submit returned.
On(s, type, l) ==
    /\ HasHandle(s)
    /\ Registrations(s) < MaxRegistrations
    /\ listener_map' = [listener_map EXCEPT ![s][type] = on(@, l)]
    /\ last_call' = HandleCall("on", s, type, l)
    /\ UNCHANGED <<protocol, nframes, arrived, processed, invoked,
                   registers>>
    /\ UNCHANGED subVars
    /\ UNCHANGED muxVars
    /\ UNCHANGED clientVars

\* on(eventType, listener) with a listener the caller wrote to register
\* listener l2 for the type of the event it is first called with.
OnRegistering(s, type, l, l2) ==
    /\ HasHandle(s)
    /\ Registrations(s) < MaxRegistrations
    /\ l # l2
    /\ \A t \in EventTypes : \A k \in DOMAIN listener_map[s][t] :
          listener_map[s][t][k] # l
    /\ listener_map' = [listener_map EXCEPT ![s][type] = on(@, l)]
    /\ registers' = [registers EXCEPT ![s][l] = l2]
    /\ last_call' = HandleCall("on", s, type, l)
    /\ UNCHANGED <<protocol, nframes, arrived, processed, invoked>>
    /\ UNCHANGED subVars
    /\ UNCHANGED muxVars
    /\ UNCHANGED clientVars

\* off(eventType, listener)
Off(s, type, l) ==
    /\ HasHandle(s)
    /\ listener_map' = [listener_map EXCEPT ![s][type] = off(@, l)]
    /\ last_call' = HandleCall("off", s, type, l)
    /\ UNCHANGED <<protocol, nframes, arrived, processed, invoked,
                   registers>>
    /\ UNCHANGED subVars
    /\ UNCHANGED muxVars
    /\ UNCHANGED clientVars

\* destroy() with a cancel() folded in: the completion flag is set and the
\* synthetic status fired before the listeners are removed.
DestroyCancels(s) ==
    /\ HasHandle(s)
    /\ listener_map' = [listener_map EXCEPT ![s] = destroy(@)]
    /\ last_call' = HandleCall("destroy", s, "none", 0)
    /\ complete' = [complete EXCEPT ![s] = "complete"]
    /\ events' = [events EXCEPT ![s] =
          fire_event(@, StatusEv("complete", FALSE, "cancel", 0))]
    /\ invoked' = [invoked EXCEPT ![s] =
          Notify(DState(s), events'[s], Len(events[s]) + 1).acc]
    /\ UNCHANGED registers
    /\ UNCHANGED <<protocol, pc, fn_index, event_id, websocket,
                   close_on_open, event_source, posts, cancels,
                   cancel_outcomes, resets, nframes, arrived, processed>>
    /\ UNCHANGED muxVars
    /\ UNCHANGED <<session_hash, requests>>
    /\ UNCHANGED clientVars

\* destroy()
Destroy(s) ==
    /\ HasHandle(s)
    /\ listener_map' = [listener_map EXCEPT ![s] = destroy(@)]
    /\ last_call' = HandleCall("destroy", s, "none", 0)
    /\ UNCHANGED <<protocol, nframes, arrived, processed, invoked,
                   registers>>
    /\ UNCHANGED subVars
    /\ UNCHANGED muxVars
    /\ UNCHANGED clientVars

(* ---------------------------------------------------------------------- *)
(* Specification                                                           *)
(* ---------------------------------------------------------------------- *)
\* One submission at a time, on every transport: the client's first
\* submission runs alone.
First == CHOOSE s \in Subs : \A t \in Subs : s <= t

Next ==
    \/ \E f \in FnIndexes : Submit(First, f)
    \/ MuxReplyNoId(First)
    \/ \E ep \in UnresolvedEndpoints, f \in FnIndexes :
          SubmitUnresolved(First, ep, f)
    \/ BlobResolved(First)
    \/ BlobRejected(First)
    \/ \E o \in DirectOutcomes : DirectReply(First, o)
    \/ ProcessEndpointResolved(First)
    \/ ProcessEndpointRejected(First)
    \/ WsOpen(First)
    \/ \E msg \in WsMsgs : WsMessage(First, msg)
    \/ \E wasClean \in BOOLEAN : WsClosed(First, wasClean)
    \/ \E msg \in SseMsgs : SseMessage(First, msg)
    \/ \E ok \in BOOLEAN : SsePostReply(First, ok)
    \/ \E st \in JoinStatuses : MuxReply(First, st)
    \/ \E msg \in MuxMsgs : StreamFrame(First, msg)
    \/ StreamCloseFrame
    \/ cancels < MaxCancels /\ Cancel(First)

Spec == Init /\ [][Next]_vars

\* Concurrent submissions of queued endpoints on a session whose protocol
\* is multiplexed: they share the stream and the four registries.
QueuedFn == CHOOSE f \in FnIndexes : ~skip_queue(f)

\* The scenarios below do not depend on the value of the session hash: one
\* value stands for all.
MuxInit ==
    /\ Init
    /\ protocol \in MuxProtocols
    /\ client_session_hash = CHOOSE h \in SessionHashes : TRUE

MuxNext ==
    \/ \E s \in Subs : Submit(s, QueuedFn)
    \/ \E s \in Subs : BlobResolved(s)
    \/ \E s \in Subs, st \in JoinStatuses : MuxReply(s, st)
    \/ \E e \in Subs, msg \in MuxMsgs : StreamFrame(e, msg)
    \/ StreamCloseFrame
    \/ \E s \in Subs : cancels < MaxMuxCancels /\ Cancel(s)

MuxSpec == MuxInit /\ [][MuxNext]_vars

\* One submission on a session whose protocol is multiplexed, its endpoint
\* queued or not, with the caller using every method of the handle.
HandleNext ==
    \/ \E f \in FnIndexes : Submit(First, f)
    \/ BlobResolved(First)
    \/ \E o \in DirectOutcomes : DirectReply(First, o)
    \/ \E st \in JoinStatuses : MuxReply(First, st)
    \/ \E msg \in MuxMsgs :
          nframes < MaxHandleFrames /\ StreamFrame(First, msg)
    \/ cancels < MaxMuxCancels /\ Cancel(First)
    \/ \E type \in EventTypes, l \in Listeners :
          last_call.k < MaxHandleCalls /\ On(First, type, l)
    \/ \E type \in EventTypes, l \in Listeners :
          last_call.k < MaxHandleCalls /\ Off(First, type, l)
    \/ last_call.k < MaxHandleCalls /\ Destroy(First)

HandleSpec == MuxInit /\ [][HandleNext]_vars

\* One submission on a session whose protocol is multiplexed, with
\* listeners that register further listeners while they are being called.
DispatchNext ==
    \/ \E f \in FnIndexes : Submit(First, f)
    \/ BlobResolved(First)
    \/ \E o \in DirectOutcomes : DirectReply(First, o)
    \/ \E st \in JoinStatuses : MuxReply(First, st)
    \/ \E msg \in MuxMsgs :
          nframes < MaxHandleFrames /\ StreamFrame(First, msg)
    \/ cancels < MaxMuxCancels /\ Cancel(First)
    \/ \E type \in EventTypes, l \in Listeners :
          last_call.k < MaxHandleCalls /\ On(First, type, l)
    \/ \E type \in EventTypes, l, l2 \in Listeners :
          last_call.k < MaxHandleCalls /\ OnRegistering(First, type, l, l2)

DispatchSpec == MuxInit /\ [][DispatchNext]_vars

\* Two submissions through one client, on every transport, each sending
\* what its transport sends; at most MaxHandleFrames frames arrive.
PairNext ==
    \/ \E s \in Subs, f \in FnIndexes : Submit(s, f)
    \/ \E s \in Subs : BlobResolved(s)
    \/ \E s \in Subs, o \in DirectOutcomes : DirectReply(s, o)
    \/ \E s \in Subs : ProcessEndpointResolved(s)
    \/ \E s \in Subs : WsOpen(s)
    \/ \E s \in Subs, msg \in WsMsgs :
          nframes < MaxHandleFrames /\ WsMessage(s, msg)
    \/ \E s \in Subs, msg \in SseMsgs :
          nframes < MaxHandleFrames /\ SseMessage(s, msg)
    \/ \E s \in Subs, ok \in BOOLEAN : SsePostReply(s, ok)
    \/ \E s \in Subs, st \in JoinStatuses : MuxReply(s, st)
    \/ \E s \in Subs : cancels < MaxMuxCancels /\ Cancel(s)

PairSpec == Init /\ [][PairNext]_vars

\* Two submissions sharing the multiplex stream, each with listeners
\* registered on its own handle, and the frames of both interleaved.
SharedNext ==
    \/ \E s \in Subs : Submit(s, QueuedFn)
    \/ \E s \in Subs : BlobResolved(s)
    \/ \E s \in Subs : MuxReply(s, 200)
    \/ \E e \in Subs, msg \in MuxMsgs :
          nframes < MaxSharedFrames /\ StreamFrame(e, msg)
    \/ \E s \in Subs, type \in EventTypes, l \in Listeners :
          last_call.k < MaxSharedCalls /\ On(s, type, l)

SharedSpec == MuxInit /\ [][SharedNext]_vars

(* ---------------------------------------------------------------------- *)
(* Properties                                                              *)
(* ---------------------------------------------------------------------- *)

\* A terminal status event: stage complete or error.
Terminal(ev) == ev.type = "status" /\ ev.stage \in {"complete", "error"}

TerminalAt(s) == {i \in DOMAIN events[s] : Terminal(events[s][i])}

StatusAt(s) == {i \in DOMAIN events[s] : events[s][i].type = "status"}

\* The stashed terminal status has been released.
Released(s) == \E i \in DOMAIN events[s] : events[s][i].by = "release"

\* The submission's handler has been handed a frame of type complete.
GotComplete(s) ==
    \E i \in DOMAIN processed[s] :
        HandleMessage(processed[s][i].msg, NoStatus).type = "complete"

\* No frame can reach the submission's handler any more: its request has
\* been answered without a queue, its socket or dedicated stream is closed,
\* or its callback is no longer registered.
Ended(s) ==
    \/ pc[s] \in {"direct_done", "mux_full", "mux_failed"}
    \/ pc[s] = "ws" /\ websocket[s] = "closed"
    \/ pc[s] = "sse" /\ event_source[s] = "closed" /\ posts[s] = 0
    \/ pc[s] = "mux" /\ EventIdOf(s) \notin event_callbacks

\* The submission's transport is torn down.
TornDown(s) ==
    \/ pc[s] = "ws" /\ websocket[s] \in {"closing", "closed"}
    \/ pc[s] = "sse" /\ event_source[s] = "closed"
    \/ pc[s] = "mux" /\ EventIdOf(s) \notin event_callbacks
                     /\ EventIdOf(s) \notin pending_diff_streams

\* C1: every submission emits exactly one terminal status event: never
\* two, and never none once the submission has ended.
C1_ExactlyOneTerminal ==
    \A s \in Subs :
        /\ Cardinality(TerminalAt(s)) <= 1
        /\ Ended(s) => Cardinality(TerminalAt(s)) = 1

\* C2: a terminal status event is the last event of its submission: no
\* event of any type follows it.
C2_NothingAfterTerminal ==
    \A s \in Subs : \A i \in TerminalAt(s) : i = Len(events[s])

\* C3: no data event of a submission follows a terminal status event of
\* that submission.
C3_NoDataAfterTerminal ==
    \A s \in Subs : \A i \in TerminalAt(s) :
        \A j \in DOMAIN events[s] : j > i => events[s][j].type # "data"

\* C4: every submission emits at least one status event, whatever the
\* outcome of payload preparation and whatever the protocol: in a state
\* where payload preparation has settled and nothing of the submission
\* is left to run, a status event has been emitted.
C4_SomeStatusEmitted ==
    \A s \in Subs :
        pc[s] \notin {"none", "prep", "ws_endpoint"} => StatusAt(s) # {}

\* C5: the status event that releases the stashed terminal status has
\* stage complete or error.
C5_ReleasedStageTerminal ==
    \A s \in Subs : \A i \in DOMAIN events[s] :
        events[s][i].by = "release" =>
            events[s][i].stage \in {"complete", "error"}

\* cancel() has been called on the submission.
Cancelled(s) == \E i \in DOMAIN events[s] : events[s][i].by = "cancel"

\* C6: a submission that received a complete frame (and was not cancelled)
\* emits the stashed terminal status and tears its transport down: once no
\* frame can reach its handler any more the status has been released, and
\* a released status comes with the teardown.
C6_CompleteReleasedAndTornDown ==
    \A s \in Subs :
        GotComplete(s) /\ ~Cancelled(s) =>
            /\ Ended(s) => Released(s)
            /\ Released(s) => TornDown(s)

\* Frames with event id e that the multiplex stream delivered before the
\* reply to e's join POST arrived.
EarlyFrames(e) ==
    {arrived[e][i].n : i \in {j \in DOMAIN arrived[e] : arrived[e][j].early}}

\* The calls of submission s's callback made with frame n.
CallsOf(s, n) == {i \in DOMAIN processed[s] : processed[s][i].n = n}

\* Frame n sits in the buffer of id e.
Buffered(e, n) ==
    \E i \in DOMAIN pending_stream_messages[e] :
        pending_stream_messages[e][i].n = n

\* C7, as claimed: once the reply has bound e, every early frame of e has
\* been passed to e's callback exactly once, each of these calls was made
\* with the callback registered in event_callbacks, and the frame is gone
\* from pending_stream_messages[e].
C7_ReplayedAfterRegistration ==
    \A s \in Subs : \A n \in EarlyFrames(EventIdOf(s)) :
        pc[s] = "mux" =>
            /\ Cardinality(CallsOf(s, n)) = 1
            /\ \A i \in CallsOf(s, n) : processed[s][i].reg
            /\ ~Buffered(EventIdOf(s), n)

\* C7, amended: an early frame of e stays buffered, unprocessed, until the
\* reply binds e; the reply's handler passes it to the callback exactly
\* once, before the callback is entered in event_callbacks, and removes it
\* from pending_stream_messages[e]; it is never passed again.
C7_ReplayedOnceAtReply ==
    \A s \in Subs : \A n \in EarlyFrames(EventIdOf(s)) :
        /\ pc[s] = "mux_post" =>
              CallsOf(s, n) = {} /\ Buffered(EventIdOf(s), n)
        /\ pc[s] = "mux" =>
              /\ Cardinality(CallsOf(s, n)) = 1
              /\ \A i \in CallsOf(s, n) : ~processed[s][i].reg
              /\ ~Buffered(EventIdOf(s), n)

\* A reply has bound an id for which two frames had been buffered.
C7_Witness ==
    \E s \in Subs :
        /\ pc[s] = "mux"
        /\ Cardinality(EarlyFrames(EventIdOf(s))) >= 2
        /\ \A n \in EarlyFrames(EventIdOf(s)) : CallsOf(s, n) # {}

\* C8: the callback of each submission is handed frames in the order the
\* stream delivered them (frame numbers count arrivals), the frames
\* buffered before the reply all come before any later frame, and the
\* events caused by frames are emitted in that order.
C8_FramesInArrivalOrder ==
    \A s \in Subs :
        /\ \A i, j \in DOMAIN processed[s] :
              i < j => processed[s][i].n < processed[s][j].n
        /\ pc[s] = "mux" =>
              \A n \in EarlyFrames(EventIdOf(s)) : CallsOf(s, n) # {}
        /\ \A i, j \in DOMAIN events[s] :
              (i < j /\ events[s][i].fr > 0 /\ events[s][j].fr > 0)
                  => events[s][i].fr <= events[s][j].fr

\* Two buffered frames were replayed and a frame that arrived after the
\* reply was processed after them.
C8_Witness ==
    \E s \in Subs :
        /\ pc[s] = "mux"
        /\ Cardinality(EarlyFrames(EventIdOf(s))) >= 2
        /\ \E i \in DOMAIN processed[s] : processed[s][i].reg
        /\ Len(events[s]) >= 3

\* A frame whose status has stage complete or error has been processed by
\* the callback of submission s.
TerminalProcessed(s) ==
    \E i \in DOMAIN processed[s] :
        HandleMessage(processed[s][i].msg, NoStatus).stage
            \in {"complete", "error"}

\* C9: when a terminal frame has been processed for event id e, e has no
\* entry in event_callbacks and none in pending_diff_streams.
C9_TerminalUnregistered ==
    \A s \in Subs :
        TerminalProcessed(s) =>
            /\ EventIdOf(s) \notin event_callbacks
            /\ EventIdOf(s) \notin pending_diff_streams

\* C10: the multiplex stream is open exactly when unclosed_events is not
\* empty.
C10_OpenIffUnclosed == stream <=> unclosed_events # {}

\* C11: a session never has more than one multiplex EventSource open at a
\* time, whatever the number of submissions and the order of their replies.
C11_AtMostOneStream == event_streams <= 1

\* C12: as long as no terminal frame has been processed for the event id of
\* a submission, the id has a callback in event_callbacks exactly when it is
\* a member of unclosed_events.
C12_RegisteredIffUnclosed ==
    \A s \in Subs :
        ~TerminalProcessed(s) =>
            (EventIdOf(s) \in event_callbacks
                <=> EventIdOf(s) \in unclosed_events)

\* A bound submission has had a non-terminal frame handled by its
\* registered callback while another submission has already seen its
\* terminal frame.
C12_Witness ==
    \E s, t \in Subs :
        /\ s # t
        /\ pc[s] = "mux"
        /\ ~TerminalProcessed(s)
        /\ \E i \in DOMAIN processed[s] : processed[s][i].reg
        /\ EventIdOf(s) \in event_callbacks \cap unclosed_events
        /\ TerminalProcessed(t)

\* C13: no step closes a multiplex EventSource while unclosed_events is
\* non-empty: whenever one is closed, unclosed_events is empty.
C13_NeverClosedWhileUnclosed ==
    [][event_streams' < event_streams => unclosed_events' = {}]_vars

\* C14: cancel() is idempotent: a cancel() of a submission that was already
\* cancelled changes neither the emitted events, nor the completion flag,
\* nor the transport, nor the requests sent to /reset.
C14_CancelIdempotent ==
    [][\A s \in Subs :
          (Cancelled(s) /\ Cancel(s)) =>
              UNCHANGED <<events, complete, websocket, close_on_open,
                          event_source, resets>>]_vars

\* C15: after cancel() on an sse-mux submission bound to event id e, the
\* callback of e is unregistered and the status fired by cancel is the last
\* event of the submission.
C15_CancelUnregisters ==
    \A s \in Subs :
        (pc[s] = "mux" /\ Cancelled(s)) =>
            /\ EventIdOf(s) \notin event_callbacks
            /\ \A i \in DOMAIN events[s] :
                  events[s][i].by = "cancel" => i = Len(events[s])

\* The status events fired by cancel().
CancelsOf(s) == {i \in DOMAIN events[s] : events[s][i].by = "cancel"}

\* The transport of a submission: direct when its endpoint skips the
\* queue, else the one config.protocol names.
TransportOf(s) == IF skip_queue(fn_index[s]) THEN "direct" ELSE protocol

\* C16: every cancel() call is followed by a POST to /reset, on every
\* transport: as many /reset requests as synthetic statuses, with body
\* {fn_index, session_hash} on ws and {event_id} on every other transport.
C16_ResetAfterEveryCancel ==
    \A s \in Subs :
        /\ Len(resets[s]) = Cardinality(CancelsOf(s))
        /\ \A i \in DOMAIN resets[s] :
              resets[s][i].body =
                  IF TransportOf(s) = "ws" THEN "fn_index,session_hash"
                  ELSE "event_id"

\* C17: the promise of a cancel() call never rejects.
C17_CancelNeverRejects ==
    \A s \in Subs : \A i \in DOMAIN cancel_outcomes[s] :
        cancel_outcomes[s][i] = "resolved"

\* C18: after destroy() the listener sequence of every event type is empty
\* and, until the next on, no listener is invoked by the events fired.
C18_DestroyRemovesAll ==
    last_call.op = "destroy" =>
        /\ listener_map[last_call.s] = NoListeners
        /\ \A p \in DOMAIN invoked[last_call.s] :
              p > last_call.invoked => invoked[last_call.s][p].op # "call"

\* destroy() found one listener registered twice for a type, and an event
\* of that type has been fired since.
C18_Witness ==
    /\ last_call.op = "destroy"
    /\ \E t \in EventTypes :
          /\ Len(last_call.before[t]) = MaxRegistrations
          /\ \A i \in DOMAIN last_call.before[t] :
                last_call.before[t][i] = last_call.before[t][1]
          /\ \E i \in DOMAIN events[last_call.s] :
                i > last_call.events /\ events[last_call.s][i].type = t

\* C19: a destroy() call leaves the completion flag, the transport handles,
\* event_id, the session registries and the stream as they are, fires no
\* event and sends no /reset request.
C19_DestroyDoesNotCancel ==
    [][\A s \in Subs :
          Destroy(s) =>
              UNCHANGED <<complete, events, invoked, event_id, websocket,
                          close_on_open, event_source, cancels, resets,
                          event_callbacks, unclosed_events,
                          pending_stream_messages, pending_diff_streams,
                          stream, event_streams>>]_vars

\* destroy() was the latest call on the handle of a bound sse-mux
\* submission that is not complete, has its callback registered and a
\* snapshot folded, and for which nothing was sent to /reset.
C19_Witness ==
    /\ last_call.op = "destroy"
    /\ \E s \in Subs :
          /\ last_call.s = s
          /\ pc[s] = "mux"
          /\ ~IsComplete(complete[s])
          /\ EventIdOf(s) \in event_callbacks \cap unclosed_events
          /\ last_call.before # NoListeners
          /\ stream
          /\ resets[s] = << >>

\* The sequence without the first occurrence of l.
RemoveFirst(seq, l) ==
    IF \E i \in DOMAIN seq : seq[i] = l
    THEN LET i == CHOOSE j \in DOMAIN seq :
                      seq[j] = l /\ \A k \in 1..(j - 1) : seq[k] # l
         IN  SubSeq(seq, 1, i - 1) \o SubSeq(seq, i + 1, Len(seq))
    ELSE seq

\* C20: off(type, listener) removes the first registration of the listener
\* for the type and nothing else: after it, until the next call on the
\* handle, the listeners are those found by the call without that one
\* registration.
C20_OffRemovesFirstOnly ==
    last_call.op = "off" =>
        listener_map[last_call.s] =
            [last_call.before EXCEPT
                ![last_call.type] = RemoveFirst(@, last_call.l)]

\* The listeners of a sequence of invocation entries.
ListenersOf(entries) == [k \in DOMAIN entries |-> entries[k].l]

\* The listeners called for event i of submission s, in call order.
CalledFor(s, i) ==
    ListenersOf(SelectSeq(invoked[s],
                          LAMBDA x : x.op = "call" /\ x.ev = i))

\* The listeners registered by listeners during the dispatch of event i.
AddedDuring(s, i) ==
    ListenersOf(SelectSeq(invoked[s], LAMBDA x : x.op = "on" /\ x.ev = i))

\* The listeners registered for the type of event i when its dispatch began.
FoundAt(s, i) ==
    LET p == CHOOSE q \in DOMAIN invoked[s] :
                 invoked[s][q].op = "fire" /\ invoked[s][q].ev = i
    IN  invoked[s][p].fns

\* Event j is the first event after i of the type of i.
NextOfType(s, i, j) ==
    /\ i < j
    /\ events[s][j].type = events[s][i].type
    /\ \A k \in DOMAIN events[s] :
          (i < k /\ k < j) => events[s][k].type # events[s][i].type

\* C21: an event is handed to the listeners registered when its dispatch
\* began, in registration order, and to no listener registered during the
\* dispatch; with no on, off or destroy call from the caller in between,
\* the next event of the type is handed to those listeners followed by the
\* listeners registered during the dispatch, in registration order.
C21_AddedListenersGetLaterEvents ==
    \A s \in Subs : \A i \in DOMAIN events[s] :
        /\ CalledFor(s, i) = FoundAt(s, i)
        /\ last_call.events < i =>
              /\ \A j \in DOMAIN events[s] :
                    NextOfType(s, i, j) =>
                        CalledFor(s, j) = FoundAt(s, i) \o AddedDuring(s, i)
              /\ (\A j \in DOMAIN events[s] : ~NextOfType(s, i, j)) =>
                    listener_map[s][events[s][i].type]
                        = FoundAt(s, i) \o AddedDuring(s, i)

\* A listener was registered during the dispatch of an event that another
\* listener had been registered for, and a later event of the type has been
\* handed to both.
C21_Witness ==
    \E s \in Subs : \E i, j \in DOMAIN events[s] :
        /\ NextOfType(s, i, j)
        /\ AddedDuring(s, i) # << >>
        /\ Len(FoundAt(s, i)) >= 2
        /\ Len(CalledFor(s, j)) > Len(FoundAt(s, i))

\* The transport the selection rule gives submission s; "none" when
\* config.protocol is none of the known tags.
ChosenTransport(s) ==
    IF skip_queue(fn_index[s]) THEN "direct"
    ELSE CASE protocol = "ws" -> "ws"
           [] protocol = "sse" -> "sse"
           [] protocol \in MuxProtocols -> "mux"
           [] OTHER -> "none"

\* The transports submission s has issued a request of: the POST to /run,
\* the endpoint resolution and the WebSocket, the dedicated EventSource and
\* its POST to /queue/data, the POST to /queue/join and its registration.
UsedTransports(s) ==
    {x \in {"direct", "ws", "sse", "mux"} :
        \/ x = "direct" /\ pc[s] \in {"direct_post", "direct_done"}
        \/ x = "ws" /\ (\/ pc[s] \in {"ws_endpoint", "ws", "ws_failed"}
                        \/ websocket[s] # "undefined")
        \/ x = "sse" /\ (\/ pc[s] = "sse"
                         \/ event_source[s] # "undefined"
                         \/ posts[s] > 0)
        \/ x = "mux" /\ (\/ pc[s] \in {"mux_post", "mux", "mux_noid", "mux_full",
                                           "mux_failed"}
                         \/ EventIdOf(s) \in event_callbacks
                         \/ EventIdOf(s) \in unclosed_events)}

\* Payload preparation of submission s has completed.
Prepared(s) ==
    pc[s] \notin {"none", "threw", "prep", "prep_no_info", "blob_failed"}

\* C22: a submission issues requests of one transport only, the one the
\* selection rule gives it (direct when skip_queue holds, whatever the
\* protocol), from the moment its payload is prepared, and of none before.
C22_OneTransportAsSelected ==
    \A s \in Subs :
        UsedTransports(s) =
            IF Prepared(s) THEN {ChosenTransport(s)} \ {"none"} ELSE {}

\* An endpoint that skips the queue has been run over the direct transport
\* on a session whose protocol is ws, and has got its reply.
C22_Witness ==
    \E s \in Subs :
        /\ protocol = "ws"
        /\ skip_queue(fn_index[s])
        /\ pc[s] = "direct_done"
        /\ Len(events[s]) >= 2

\* The pending status of submission s: queue is false on the direct
\* transport and true on every other.
PendingOf(s) == StatusEv("pending", ~skip_queue(fn_index[s]), "pending", 0)

\* A frame or a reply of the transport of s has been processed.
TransportHeard(s) ==
    \/ processed[s] # << >>
    \/ pc[s] \in {"direct_done", "mux", "mux_noid", "mux_full", "mux_failed"}
    \/ websocket[s] = "closed"

\* C23, as claimed: the first event of a submission is its pending status,
\* no event is emitted before payload preparation has completed, and the
\* pending status is there when a frame or reply has been processed.
C23_FirstEventPending ==
    \A s \in Subs :
        /\ events[s] # << >> => events[s][1] = PendingOf(s)
        /\ ~Prepared(s) => events[s] = << >>
        /\ TransportHeard(s) => events[s] # << >>

\* The events of s that were not fired by a cancel() call.
EngineEvents(s) == SelectSeq(events[s], LAMBDA ev : ev.by # "cancel")

\* C23, amended: leaving aside the status a cancel() call synthesizes, the
\* first event of a submission is its pending status, none is emitted
\* before payload preparation has completed, and the pending status is
\* there when a frame or reply has been processed.
C23_FirstEngineEventPending ==
    \A s \in Subs :
        /\ EngineEvents(s) # << >> => EngineEvents(s)[1] = PendingOf(s)
        /\ ~Prepared(s) => EngineEvents(s) = << >>
        /\ TransportHeard(s) => EngineEvents(s) # << >>

\* cancel() was called during payload preparation; the pending status and
\* an event caused by a frame followed.
C23_Witness ==
    \E s \in Subs :
        /\ Len(events[s]) >= 3
        /\ events[s][1].by = "cancel"
        /\ events[s][2] = PendingOf(s)
        /\ events[s][3].fr > 0

\* The event sequences of a direct submission: the pending status alone
\* while the POST is in flight, then one of the three outcomes.
DirectPending == StatusEv("pending", FALSE, "pending", 0)

DirectSequences ==
    { <<DirectPending, DataEv("direct", 0),
        StatusEv("complete", FALSE, "direct", 0)>>,
      <<DirectPending, StatusEv("error", FALSE, "direct", 0)>>,
      <<DirectPending, StatusEv("error", FALSE, "direct_catch", 0)>> }

DirectAsClaimed(s) ==
    /\ pc[s] = "direct_post" => events[s] = <<DirectPending>>
    /\ pc[s] = "direct_done" => events[s] \in DirectSequences

\* C24, as claimed: a direct submission emits the pending status and then
\* exactly data and complete (200), or one error status (non-200), or one
\* error status (network exception), and nothing else.
C24_DirectSequence ==
    \A s \in Subs :
        pc[s] \in {"direct_post", "direct_done"} => DirectAsClaimed(s)

\* C24, amended: the same for a direct submission on which cancel() has not
\* been called.
C24_DirectSequenceUncancelled ==
    \A s \in Subs :
        (pc[s] \in {"direct_post", "direct_done"} /\ ~Cancelled(s))
            => DirectAsClaimed(s)

\* A direct submission that was never cancelled got its 200 reply.
C24_Witness ==
    \E s \in Subs :
        /\ pc[s] = "direct_done"
        /\ ~Cancelled(s)
        /\ Len(events[s]) = 3
        /\ events[s][2].type = "data"

\* The submission's join was refused: its reply handler took the 503
\* branch or the other non-200 branch.
JoinRefused(s) == pc[s] \in {"mux_full", "mux_failed"}

RefusalOf(s) ==
    StatusEv("error", TRUE,
             IF pc[s] = "mux_full" THEN "queue_full" ELSE "join_failed", 0)

\* C25: an sse-mux submission whose POST to /queue/join is answered 503
\* emits the pending status with queue true and then an error status with
\* QUEUE_FULL_MSG, and one answered with another non-200 code an error
\* status with BROKEN_CONNECTION_MSG; in both cases it emits no data event,
\* has no callback registered, and the reply leaves unclosed_events and
\* the multiplex stream as they were.
C25_JoinRefused ==
    /\ [](\A s \in Subs : JoinRefused(s) =>
             /\ EngineEvents(s) = <<PendingOf(s), RefusalOf(s)>>
             /\ PendingOf(s).queue = TRUE
             /\ \A i \in DOMAIN events[s] : events[s][i].type # "data"
             /\ event_id[s] = 0
             /\ EventIdOf(s) \notin event_callbacks
             /\ EventIdOf(s) \notin unclosed_events)
    /\ [][\A s \in Subs :
            (pc[s] = "mux_post" /\ JoinRefused(s)') =>
                UNCHANGED <<event_callbacks, unclosed_events, stream,
                            event_streams, pending_stream_messages,
                            pending_diff_streams>>]_vars

\* A join was refused while another submission had the multiplex stream
\* open and registered.
C25_Witness ==
    \E s, r \in Subs :
        /\ JoinRefused(s)
        /\ pc[r] = "mux"
        /\ stream
        /\ EventIdOf(r) \in unclosed_events

\* The statuses fired for a broken connection: an unclean WebSocket close
\* and a non-200 reply to the sse-legacy POST to /queue/data.
BrokenConnectionEvents(s) ==
    {i \in DOMAIN events[s] : events[s][i].by \in {"broken", "post_failed"}}

\* C26, as claimed: every broken-connection condition emits a status with
\* stage error and broken = true, and a ws submission whose socket closes
\* uncleanly before any frame (and without a cancel() call) has emitted
\* exactly the pending status and that error status.
C26_BrokenConnectionFlagged ==
    \A s \in Subs :
        /\ \A i \in BrokenConnectionEvents(s) :
              /\ events[s][i].type = "status"
              /\ events[s][i].stage = "error"
              /\ Broken(events[s][i])
        /\ ( /\ pc[s] = "ws"
             /\ websocket[s] = "closed"
             /\ processed[s] = << >>
             /\ ~Cancelled(s)
             /\ BrokenConnectionEvents(s) # {} )
           => events[s] = <<PendingOf(s),
                            StatusEv("error", TRUE, "broken", 0)>>

\* The step hands a frame the interpreter throws on to the registered
\* callback of submission e, as frame number nframes + 1 of the stream.
ThrowingFrameHandled(e) ==
    /\ pc[e] = "mux"
    /\ stream
    /\ EventIdOf(e) \in event_callbacks
    /\ nframes' = nframes + 1
    /\ Len(processed'[e]) = Len(processed[e]) + 1
    /\ HandleMessage(processed'[e][Len(processed'[e])].msg,
                     last_status(fn_index[e])).type = "throw"

\* C27, as claimed: an exception raised while an sse-mux callback handles
\* a frame fires status{stage: error, "An Unexpected Error Occurred!"};
\* the multiplex stream is closed by it under sse_v2 and sse_v2.1 and is
\* left open under sse_v3.
C27_ExceptionClosesStream ==
    [][\A e \in Subs : ThrowingFrameHandled(e) =>
          /\ events'[e] = Append(events[e],
                 StatusEv("error", TRUE, "exception", nframes + 1))
          /\ protocol \in {"sse_v2", "sse_v2.1"} => ~stream'
          /\ protocol = "sse_v3" => stream']_vars

\* submit was called for s with an endpoint that does not resolve: it
\* threw, or it went on without an api_info.
UnresolvedSubmitted(s) == pc[s] \in {"threw", "prep_no_info"}

\* C28, as claimed: submit with no discovered api or with an endpoint that
\* does not resolve throws synchronously: no handle is returned, no
\* payload preparation or request is started, no event is emitted and the
\* session's registries are untouched.
C28_UnresolvedThrows ==
    \A s \in Subs : UnresolvedSubmitted(s) =>
        /\ ~HasHandle(s)
        /\ events[s] = << >>
        /\ cancels = 0
        /\ event_callbacks = {} /\ unclosed_events = {}

\* Call i of the interpreter for submission s was for a frame whose result
\* carries a status; StatusOfCall is that status's stage.
StatusOfCall(s, i) ==
    HandleMessage(processed[s][i].msg, last_status(fn_index[s])).stage

CarriesStatus(s, i) == StatusOfCall(s, i) # NoStatus

\* C29, as claimed: once a frame that carries a status has been
\* interpreted, last_status[fn_index] holds that frame's stage until the
\* next such frame, so that is what the next call of the interpreter for
\* the fn_index is handed as previous stage.
C29_LastStatusStored ==
    \A s \in Subs : \A i \in DOMAIN processed[s] :
        ( /\ CarriesStatus(s, i)
          /\ \A j \in DOMAIN processed[s] : j > i => ~CarriesStatus(s, j) )
        => last_status(fn_index[s]) = StatusOfCall(s, i)

\* C30, as claimed: event_callbacks and unclosed_events hold only ids the
\* server assigned; a 200 reply to /queue/join without an event_id adds
\* nothing to either.
C30_OnlyAssignedIds ==
    /\ event_callbacks \subseteq {EventIdOf(s) : s \in Subs}
    /\ unclosed_events \subseteq {EventIdOf(s) : s \in Subs}
    /\ \A s \in Subs : pc[s] = "mux_noid" =>
          event_callbacks = {} /\ unclosed_events = {}

\* The interpreter's result for call i of submission s.
ResultOfCall(s, i) ==
    HandleMessage(processed[s][i].msg, last_status(fn_index[s]))

\* A generating frame with data has been handed to the callback of s; a
\* frame whose status is terminal has been.
GeneratingProcessed(s) ==
    \E i \in DOMAIN processed[s] :
        ResultOfCall(s, i).type = "generating" /\ ResultOfCall(s, i).data

\* C31: under sse_v2, sse_v2.1 and sse_v3 pending_diff_streams has an entry
\* for an id exactly when a generating frame with data has been folded for
\* it and no frame with a terminal status has been processed for it; under
\* any other protocol it has no entry.
C31_DiffStreamIffFolding ==
    \A s \in Subs :
        EventIdOf(s) \in pending_diff_streams
            <=> ( /\ protocol \in {"sse_v2", "sse_v2.1", "sse_v3"}
                  /\ GeneratingProcessed(s)
                  /\ ~TerminalProcessed(s) )

\* C32: Client.session_hash never changes, the heartbeat URL carries it,
\* and every message of every submission that has a session_hash field
\* (POST /run, /queue/join, the socket's hash and data replies, POST
\* /queue/data, /reset of a ws submission, the stream URLs) carries it.
C32_OneSessionHash ==
    /\ [](/\ heartbeat_url = client_session_hash
          /\ \A s \in Subs : \A i \in DOMAIN requests[s] :
                requests[s][i].session_hash = client_session_hash)
    /\ [][client_session_hash' = client_session_hash]_vars

\* Both submissions have sent a message with the session hash, one of them
\* two.
C32_Witness ==
    \E s, r \in Subs :
        /\ s # r
        /\ Len(requests[s]) >= 2
        /\ Len(requests[r]) >= 1

\* The step hands a frame to websocket.onmessage of submission s;
\* HandledFrame is the interpreter's result for it.
WsFrameHandled(s) ==
    /\ protocol = "ws"
    /\ pc[s] = "ws"
    /\ Len(processed'[s]) = Len(processed[s]) + 1

HandledFrame(s) ==
    HandleMessage(processed'[s][Len(processed'[s])].msg,
                  last_status(fn_index[s]))

\* C33, as claimed: on a ws submission a hash frame causes exactly one
\* reply {fn_index, session_hash} and no event, a data frame exactly one
\* reply with the payload and the session hash, and an update frame with
\* stage error emits that status and closes the socket; once the socket
\* has been closed no frame is handled.
C33_WsReplies ==
    [][\A s \in Subs :
         /\ WsFrameHandled(s) =>
               /\ websocket[s] = "open"
               /\ HandledFrame(s).type = "hash" =>
                     /\ requests'[s] = Append(requests[s],
                            Request("ws_hash", client_session_hash))
                     /\ events'[s] = events[s]
               /\ HandledFrame(s).type = "data" =>
                     requests'[s] = Append(requests[s],
                         Request("ws_data", client_session_hash))
               /\ HandledFrame(s).type \notin {"hash", "data"} =>
                     requests'[s] = requests[s]
               /\ ( HandledFrame(s).type = "update"
                    /\ HandledFrame(s).stage = "error" ) =>
                     /\ events'[s] = Append(events[s],
                            StatusEv("error", TRUE, "update", nframes'))
                     /\ websocket'[s] = "closing"
         /\ ( protocol = "ws" /\ websocket[s] \in {"closing", "closed"} ) =>
               processed'[s] = processed[s]]_vars

\* The step is a cancel() call on the handle of s; it hands a frame to the
\* handler of s.
CancelCalled(s) == Len(cancel_outcomes'[s]) = Len(cancel_outcomes[s]) + 1

FrameHandled(s) == Len(processed'[s]) = Len(processed[s]) + 1

OthersHandlesKept(s) ==
    \A r \in Subs \ {s} :
        /\ event_source'[r] = event_source[r]
        /\ websocket'[r] = websocket[r]
        /\ close_on_open'[r] = close_on_open[r]

FrameOf(e) ==
    \/ nframes' = nframes + 1 /\ arrived'[e] # arrived[e]
    \/ processed'[e] # processed[e]

\* The listener calls the step made for submission s.
NewCalls(s) ==
    {p \in DOMAIN invoked'[s] :
        p > Len(invoked[s]) /\ invoked'[s][p].op = "call"}

\* Listener l was registered on the handle of s for events of the type.
RegisteredOn(s, type, l) ==
    \E k \in DOMAIN listener_map[s][type] : listener_map[s][type][k] = l

\* C35: a frame with event id e fires no event on a submission other than
\* the one bound to e, does not change its completion flag and calls none
\* of its listeners, and the events it fires are handed only to listeners
\* registered on the handle of the submission bound to e.
C35_FramesReachOwnSubmission ==
    [][\A e \in Subs : FrameOf(e) =>
         /\ \A s \in Subs \ {e} :
               /\ events'[s] = events[s]
               /\ complete'[s] = complete[s]
               /\ invoked'[s] = invoked[s]
         /\ \A p \in NewCalls(e) :
               RegisteredOn(e, events'[e][invoked'[e][p].ev].type,
                            invoked'[e][p].l)]_vars

\* Both submissions are bound, frames of both have fired events, and a
\* listener registered on one handle only has been called.
C35_Witness ==
    \E s, r \in Subs, l \in Listeners :
        /\ s # r
        /\ pc[s] = "mux" /\ pc[r] = "mux"
        /\ \E i \in DOMAIN events[s] : events[s][i].fr > 0
        /\ \E i \in DOMAIN events[r] : events[r][i].fr > 0
        /\ \E p \in DOMAIN invoked[s] :
              invoked[s][p].op = "call" /\ invoked[s][p].l = l
        /\ \A type \in EventTypes : ~RegisteredOn(r, type, l)

====
